---- MODULE Spec2Model ----
(***************************************************************************)
(* A model of AISmartFolder's SmartFolderHandler (src/src/smart_folder.py):*)
(* the two decision methods suggest_name and suggest_folder, the response  *)
(* parsing they share, and the on_created handler with its collision loop  *)
(* and move.                                                               *)
(*                                                                         *)
(* Text is a sequence of tokens.  A token is one character ("a", "A", " ", *)
(* "\n", "_") or one of the multi-character units the code treats as a     *)
(* whole: the tags "<answer>" and "</answer>", a file extension (".txt"),  *)
(* and the decimal text of the collision counter ("1", "2", ...).          *)
(***************************************************************************)
EXTENDS Integers, Sequences, FiniteSets, TLC

VARIABLES
  rootPresent,      \* the watched directory self.folder_path exists
  subdirs,          \* names of the directories directly under the watched one
  fs,               \* the files on disk: a function path -> file
  queue,            \* creation events the observer has yet to deliver
  pc,               \* where on_created is: idle, name, folder, place, move, error
  file_path,        \* on_created's local file_path (event.src_path)
  suggested_name,   \* on_created's local suggested_name
  suggested_folder, \* on_created's local suggested_folder
  new_name,         \* on_created's local new_name, after the collision loop
  target_dir,       \* on_created's local target_dir
  notes,            \* the send_notification calls of the event being handled
  placed,           \* where each file put into (or found in) a subfolder is
  moveResult,       \* shutil.move in the event being handled: none, ok, failed
  call,             \* the last direct call of suggest_name / suggest_folder
  log,              \* what the event being handled has done so far, in order
  adapter           \* an LLM adapter object and the requests it has sent

vars == <<rootPresent, subdirs, fs, queue, pc, file_path, suggested_name,
          suggested_folder, new_name, target_dir, notes, placed, moveResult,
          call, log, adapter>>

----------------------------------------------------------------------------
(* Bounds *)

\* Longest model response, in tokens.
MaxResp == 3

----------------------------------------------------------------------------
(* Text *)

OPEN == "<answer>"
CLOSE == "</answer>"

\* The tokens a model response is made of.
Alphabet == {OPEN, CLOSE, "a", "A", " ", "\n"}

Whitespace == {" ", "\n", "\t"}

\* str.lower(), one character
LowerChar(c) == CASE c = "A" -> "a" [] c = "N" -> "n" [] OTHER -> c

\* str.lower()
Lower(s) == [i \in 1..Len(s) |-> LowerChar(s[i])]

\* str.strip(): leading and trailing whitespace removed
Strip(s) ==
  LET keep == {i \in 1..Len(s) : s[i] \notin Whitespace}
  IN IF keep = {} THEN <<>>
     ELSE LET lo == CHOOSE i \in keep : \A j \in keep : i <= j
              hi == CHOOSE i \in keep : \A j \in keep : j <= i
          IN SubSeq(s, lo, hi)

\* str.replace(" ", "_")
ReplaceSpaces(s) == [i \in 1..Len(s) |-> IF s[i] = " " THEN "_" ELSE s[i]]

\* The search with a greedy group, (.*): up to the last closing tag.
ReSearchGreedy(response) ==
  LET opens == {i \in 1..Len(response) :
                  /\ response[i] = OPEN
                  /\ \E j \in (i+1)..Len(response) : response[j] = CLOSE}
  IN IF opens = {} THEN [matched |-> FALSE, group |-> <<>>]
     ELSE LET i == CHOOSE x \in opens : \A y \in opens : x <= y
              closes == {j \in (i+1)..Len(response) : response[j] = CLOSE}
              j == CHOOSE x \in closes : \A y \in closes : y <= x
          IN [matched |-> TRUE, group |-> SubSeq(response, i+1, j-1)]

\* re.search(r"<answer>(.*?)</answer>", response, re.DOTALL): the leftmost
\* opening tag that a closing tag follows, up to the nearest closing tag.
ReSearch(response) ==
  LET opens == {i \in 1..Len(response) :
                  /\ response[i] = OPEN
                  /\ \E j \in (i+1)..Len(response) : response[j] = CLOSE}
  IN IF opens = {} THEN [matched |-> FALSE, group |-> <<>>]
     ELSE LET i == CHOOSE x \in opens : \A y \in opens : x <= y
              closes == {j \in (i+1)..Len(response) : response[j] = CLOSE}
              j == CHOOSE x \in closes : \A y \in closes : x <= y
          IN [matched |-> TRUE, group |-> SubSeq(response, i+1, j-1)]

\* All token sequences of length at most n.
RECURSIVE SeqsUpTo(_)
SeqsUpTo(n) ==
  IF n = 0 THEN {<<>>}
  ELSE LET shorter == SeqsUpTo(n-1)
       IN shorter \cup {Append(s, c) : s \in {t \in shorter : Len(t) = n-1}, c \in Alphabet}

\* What llm.generate can hand back: text (empty text stands for an empty or
\* absent response), or an exception.
Responses == SeqsUpTo(MaxResp)
LlmOutcomes ==
  {[raised |-> TRUE, text |-> <<>>]} \cup {[raised |-> FALSE, text |-> r] : r \in Responses}

----------------------------------------------------------------------------
(* Paths and the file system *)

\* A path is a directory (its components below the watched directory) and a
\* file name.  Root is self.folder_path itself.
Root == <<>>
OtherDir == << <<"nonexistent">> >>
Path(d, n) == [dir |-> d, name |-> n]

\* os.path.join(self.folder_path, item)
Join(item) == <<item>>

\* os.path.basename / os.path.dirname
Basename(p) == p.name
Dirname(p) == p.dir

ExtTokens == {".txt", ".pdf", ".png"}

\* os.path.splitext: the extension starts at the last dot, unless nothing
\* but dots precedes it.
Splitext(n) ==
  LET dots == {i \in 2..Len(n) : n[i] \in ExtTokens}
  IN IF dots = {} THEN [root |-> n, ext |-> <<>>]
     ELSE LET i == CHOOSE x \in dots : \A y \in dots : y <= x
          IN [root |-> SubSeq(n, 1, i-1), ext |-> SubSeq(n, i, Len(n))]

\* The watched directory, or a directory directly below it, is there
DirExists(d) ==
  /\ rootPresent
  /\ \/ d = Root
     \/ Len(d) = 1 /\ d[1] \in subdirs

\* os.path.exists: a file, or a directory (the watched one or one below it;
\* a path with an empty name, "dir/", is the directory itself)
Exists(p) ==
  \/ p \in DOMAIN fs
  \/ p.dir = Root /\ DirExists(Join(p.name))
  \/ p.name = <<>> /\ DirExists(p.dir)

\* open(file_path) succeeds
CanOpen(p) == p \in DOMAIN fs /\ fs[p].readable

\* Image.open succeeds
is_image_file(p) == CanOpen(p) /\ fs[p].data = "image"

\* mimetypes.guess_type goes by the name alone
is_pdf_file(p) == Splitext(p.name).ext = <<".pdf">>

\* The OCR collaborator answers or fails; either way a string comes back.
OcrOutcomes == {"ok", "fail"}
extract_pdf_text(p, ocr) == IF CanOpen(p) /\ ocr = "ok" THEN "ocr text" ELSE ""

\* What another process does to the file while get_file_content runs:
\* nothing, or it removes the file (or its read permission) after the kind
\* checks and before the file is opened for reading.
Races == {"none", "gone"}

\* lines 89-102 while another process may act on the file: the open of the
\* image branch (line 92) is outside any try; extract_pdf_text and the text
\* branch catch a failed open.
get_file_content_during(p, ocr, race) ==
  IF is_image_file(p)
  THEN IF CanOpen(p) /\ race = "none"
       THEN [raised |-> FALSE, kind |-> "image", content |-> "raw bytes"]
       ELSE [raised |-> TRUE, kind |-> "", content |-> ""]
  ELSE IF is_pdf_file(p)
  THEN [raised |-> FALSE, kind |-> "text",
        content |-> IF race = "none" THEN extract_pdf_text(p, ocr) ELSE ""]
  ELSE IF CanOpen(p) /\ fs[p].data = "utf8" /\ race = "none"
  THEN [raised |-> FALSE, kind |-> "text", content |-> "utf8 text"]
  ELSE [raised |-> FALSE, kind |-> "binary", content |-> ""]

\* lines 89-102 with the file left alone during the call
get_file_content(p, ocr) == get_file_content_during(p, ocr, "none")

\* os.listdir gives the entries in no particular order.
Orderings(S) ==
  {s \in [1..Cardinality(S) -> S] : \A i, j \in 1..Cardinality(S) : i # j => s[i] # s[j]}

\* get_subfolders: raises when the watched directory is gone
get_subfolders(order) ==
  IF rootPresent THEN [raised |-> FALSE, list |-> order]
  ELSE [raised |-> TRUE, list |-> <<>>]

----------------------------------------------------------------------------
(* The two decisions.  A result says whether the call raised, what it     *)
(* returned, how often it invoked llm.generate, and the content kind.     *)

Raised == [raised |-> TRUE, ret |-> <<>>, gen |-> 0, kind |-> ""]
Returned(r, g, k) == [raised |-> FALSE, ret |-> r, gen |-> g, kind |-> k]

NoneText == <<"n", "o", "n", "e">>

\* lines 175-177 with the folder returned in the answer's casing.
ValidateFolderLowered(subfolders, suggested) ==
  IF \E i \in 1..Len(subfolders) : Lower(subfolders[i]) = suggested
  THEN suggested
  ELSE <<>>

\* lines 175-177: the first listed folder that equals the answer, case aside
ValidateFolder(subfolders, suggested) ==
  LET hits == {i \in 1..Len(subfolders) : Lower(subfolders[i]) = suggested}
  IN IF hits # {}
     THEN subfolders[CHOOSE i \in hits : \A j \in hits : i <= j]
     ELSE <<>>

\* lines 133-177 without the empty-response check.
FolderAfterGenerateNoEmptyCheck(subfolders, out, kind) ==
  IF out.raised THEN Returned(<<>>, 1, kind)
  ELSE LET answer_match == ReSearch(out.text)
           suggested == IF answer_match.matched
                        THEN Lower(Strip(answer_match.group))
                        ELSE NoneText
       IN Returned(ValidateFolder(subfolders, suggested), 1, kind)

\* lines 133-177: llm.generate, the response parsed and validated
FolderAfterGenerate(subfolders, out, kind) ==
  IF out.raised THEN Returned(<<>>, 1, kind)
  ELSE IF out.text = <<>> THEN Returned(<<>>, 1, kind)
  ELSE LET answer_match == ReSearch(out.text)
           suggested == IF answer_match.matched
                        THEN Lower(Strip(answer_match.group))
                        ELSE NoneText
       IN Returned(ValidateFolder(subfolders, suggested), 1, kind)

\* suggest_folder without the check for an empty listing.
suggest_folder_always_asks(p, ocr, order, out) ==
  LET fc == get_file_content(p, ocr)
      ls == get_subfolders(order)
  IN IF fc.raised \/ ls.raised THEN Raised
     ELSE FolderAfterGenerate(ls.list, out, fc.kind)

suggest_folder(p, ocr, order, out) ==
  LET fc == get_file_content(p, ocr)
      ls == get_subfolders(order)
      subfolders == ls.list
  IN IF fc.raised \/ ls.raised THEN Raised
     ELSE IF subfolders = <<>> THEN Returned(<<>>, 0, fc.kind)
     ELSE FolderAfterGenerate(subfolders, out, fc.kind)

\* lines 210-253 with suggest_folder's fallback (the empty string) on a
\* failed or empty generation.
NameAfterGenerateEmptyFallback(original_name, out, kind) ==
  IF out.raised THEN Returned(<<>>, 1, kind)
  ELSE IF out.text = <<>> THEN Returned(<<>>, 1, kind)
  ELSE LET answer_match == ReSearch(out.text)
       IN Returned(IF answer_match.matched
                   THEN ReplaceSpaces(Strip(answer_match.group))
                   ELSE original_name, 1, kind)

\* lines 210-253: llm.generate and the response parsed
NameAfterGenerate(original_name, out, kind) ==
  IF out.raised THEN Returned(original_name, 1, kind)
  ELSE IF out.text = <<>> THEN Returned(original_name, 1, kind)
  ELSE LET answer_match == ReSearch(out.text)
       IN Returned(IF answer_match.matched
                   THEN ReplaceSpaces(Strip(answer_match.group))
                   ELSE original_name, 1, kind)

\* suggest_name without the check for a binary file.
suggest_name_always_asks(p, ocr, out) ==
  LET fc == get_file_content(p, ocr)
  IN IF fc.raised THEN Raised
     ELSE NameAfterGenerate(Basename(p), out, fc.kind)

suggest_name(p, ocr, out) ==
  LET fc == get_file_content(p, ocr)
      original_name == Basename(p)
  IN IF fc.raised THEN Raised
     ELSE IF fc.kind = "binary" THEN Returned(original_name, 0, fc.kind)
     ELSE NameAfterGenerate(original_name, out, fc.kind)

----------------------------------------------------------------------------
(* on_created, step by step: the event is taken up, the name is decided,  *)
(* the folder is decided, the destination is computed (the collision      *)
(* loop), the file is moved and the outcome notified.                     *)

\* f"{suggested_name}_{counter}{ext}"
Suffixed(name, counter, ext) == name \o <<"_", ToString(counter)>> \o ext

\* The loop as a single test: one suffix, not probed again.
CollisionOnce(dir, name, ext, candidate, counter) ==
  IF Exists(Path(dir, candidate)) THEN Suffixed(name, counter, ext) ELSE candidate

\* while os.path.exists(new_path): new_name = ...; counter += 1
RECURSIVE CollisionLoop(_, _, _, _, _)
CollisionLoop(dir, name, ext, candidate, counter) ==
  IF Exists(Path(dir, candidate))
  THEN CollisionLoop(dir, name, ext, Suffixed(name, counter, ext), counter + 1)
  ELSE candidate

\* The loop probing the watched directory instead of the target directory.
UniqueNameInRoot(dir, name, ext) == CollisionLoop(Root, name, ext, name \o ext, 1)

\* The unique file name on_created settles on (lines 270-288).
UniqueName(dir, name, ext) == CollisionLoop(dir, name, ext, name \o ext, 1)

\* if suggested_folder: join(self.folder_path, suggested_folder) else self.folder_path
TargetDir(folder) == IF folder # <<>> THEN Join(folder) ELSE Root

\* shutil.move where the rename refuses a destination that exists.
ShutilMoveNoReplace(src, dst) ==
  LET into == Path(Join(dst.name), src.name)
      real_dst == IF dst.dir = Root /\ dst.name \in subdirs THEN into ELSE dst
  IN IF src \notin DOMAIN fs \/ ~DirExists(dst.dir) \/ real_dst \in DOMAIN fs
     THEN [raised |-> TRUE, fs |-> fs, dst |-> dst]
     ELSE [raised |-> FALSE,
           fs |-> [q \in (DOMAIN fs \ {src}) \cup {real_dst} |->
                     IF q = real_dst THEN fs[src] ELSE fs[q]],
           dst |-> real_dst]

\* shutil.move(src, dst) within one file system: a rename that replaces a
\* file at dst; a dst that is a directory receives the file under its own
\* name; a missing source or destination directory raises.
ShutilMove(src, dst) ==
  LET into == Path(Join(dst.name), src.name)
      real_dst == IF dst.dir = Root /\ dst.name \in subdirs THEN into ELSE dst
  IN IF src \notin DOMAIN fs \/ ~DirExists(dst.dir) THEN [raised |-> TRUE, fs |-> fs, dst |-> dst]
     ELSE IF real_dst # dst /\ real_dst \in DOMAIN fs THEN [raised |-> TRUE, fs |-> fs, dst |-> dst]
     ELSE [raised |-> FALSE,
           fs |-> [q \in (DOMAIN fs \ {src}) \cup {real_dst} |->
                     IF q = real_dst THEN fs[src] ELSE fs[q]],
           dst |-> real_dst]

\* What a decision reads of the model's response.
Digest(out) == [raised |-> out.raised, empty |-> out.text = <<>>, m |-> ReSearch(out.text)]

\* One response for each way a response can be read: the handler's steps
\* draw the model's answer from these.
Representatives ==
  {CHOOSE o \in LlmOutcomes : Digest(o) = d : d \in {Digest(o) : o \in LlmOutcomes}}

\* The OCR collaborator is only consulted for a PDF.
OcrFor(p) == IF is_pdf_file(p) THEN OcrOutcomes ELSE {"unused"}

\* One entry of the event's log.
Did(op, kind, content) == [op |-> op, kind |-> kind, content |-> content]

\* What one decision call does, in order: get_file_content (with the OCR
\* collaborator for a PDF that is no image), then llm.generate if it gets
\* that far.
Effects(p, ocr, r) ==
  LET fc == get_file_content(p, ocr)
  IN (IF ~is_image_file(p) /\ is_pdf_file(p) THEN <<Did("ocr", "", "")>> ELSE <<>>)
     \o <<Did("classify", fc.kind, fc.content)>>
     \o (IF r.gen = 1 THEN <<Did("generate", "", "")>> ELSE <<>>)

NoPath == Path(Root, <<>>)
NoCall == [op |-> "none"]
NoAdapter == [impl |-> "none"]

\* on_created without the filter of lines 256-257.
OnCreatedEnterNoFilter ==
  /\ pc = "idle"
  /\ queue # <<>>
  /\ queue' = Tail(queue)
  /\ pc' = "name"
  /\ file_path' = Head(queue).src_path
  /\ notes' = <<>>
  /\ moveResult' = "none"
  /\ log' = <<Did("sleep", "", "")>>
  /\ suggested_name' = <<>>
  /\ suggested_folder' = <<>>
  /\ new_name' = <<>>
  /\ target_dir' = Root
  /\ UNCHANGED <<rootPresent, subdirs, fs, placed, call, adapter>>

\* on_created entered for the next event while the last one is still handled.
OnCreatedEnterAnyTime ==
  /\ queue # <<>>
  /\ queue' = Tail(queue)
  /\ IF Head(queue).is_directory
     THEN UNCHANGED <<pc, file_path, notes, moveResult, log>>
     ELSE /\ pc' = "name"
          /\ file_path' = Head(queue).src_path
          /\ notes' = <<>>
          /\ moveResult' = "none"
          /\ log' = <<Did("sleep", "", "")>>
  /\ suggested_name' = <<>>
  /\ suggested_folder' = <<>>
  /\ new_name' = <<>>
  /\ target_dir' = Root
  /\ UNCHANGED <<rootPresent, subdirs, fs, placed, call, adapter>>

\* on_created, lines 255-263: a directory event is dropped at once.  The
\* observer's one dispatching thread calls it for an event when the call
\* for the event before has come back.
OnCreatedEnter ==
  /\ pc = "idle"
  /\ queue # <<>>
  /\ queue' = Tail(queue)
  /\ IF Head(queue).is_directory
     THEN UNCHANGED <<pc, file_path, notes, moveResult, log>>
     ELSE /\ pc' = "name"
          /\ file_path' = Head(queue).src_path
          /\ notes' = <<>>
          /\ moveResult' = "none"
          /\ log' = <<Did("sleep", "", "")>>
  /\ suggested_name' = <<>>
  /\ suggested_folder' = <<>>
  /\ new_name' = <<>>
  /\ target_dir' = Root
  /\ UNCHANGED <<rootPresent, subdirs, fs, placed, call, adapter>>

\* line 267
SuggestNameStep ==
  /\ pc = "name"
  /\ \E ocr \in OcrFor(file_path), out \in Representatives :
       LET r == suggest_name(file_path, ocr, out)
       IN /\ log' = log \o Effects(file_path, ocr, r)
          /\ IF r.raised
             THEN pc' = "error" /\ UNCHANGED suggested_name
             ELSE pc' = "folder" /\ suggested_name' = r.ret
  /\ UNCHANGED <<rootPresent, subdirs, fs, queue, file_path, suggested_folder,
                 new_name, target_dir, notes, placed, moveResult, call, adapter>>

\* line 268
SuggestFolderStep ==
  /\ pc = "folder"
  /\ \E ocr \in OcrFor(file_path), order \in Orderings(subdirs), out \in Representatives :
       LET r == suggest_folder(file_path, ocr, order, out)
       IN /\ log' = log \o Effects(file_path, ocr, r)
          /\ IF r.raised
             THEN pc' = "error" /\ UNCHANGED suggested_folder
             ELSE pc' = "place" /\ suggested_folder' = r.ret
  /\ UNCHANGED <<rootPresent, subdirs, fs, queue, file_path, suggested_name,
                 new_name, target_dir, notes, placed, moveResult, call, adapter>>

\* Lines 270-288 with the file moved to each candidate as it is probed.
PlaceMovingEarly ==
  /\ pc = "place"
  /\ target_dir' = TargetDir(suggested_folder)
  /\ new_name' = UniqueName(TargetDir(suggested_folder), suggested_name,
                            Splitext(file_path.name).ext)
  /\ pc' = "move"
  /\ log' = Append(log, Did("probe", "", ""))
  /\ fs' = ShutilMove(file_path, Path(TargetDir(suggested_folder),
                                      suggested_name \o Splitext(file_path.name).ext)).fs
  /\ UNCHANGED <<rootPresent, subdirs, queue, file_path, suggested_name,
                 suggested_folder, notes, placed, moveResult, call, adapter>>

\* lines 270-288
Place ==
  /\ pc = "place"
  /\ target_dir' = TargetDir(suggested_folder)
  /\ new_name' = UniqueName(TargetDir(suggested_folder), suggested_name,
                            Splitext(file_path.name).ext)
  /\ pc' = "move"
  /\ log' = Append(log, Did("probe", "", ""))
  /\ UNCHANGED <<rootPresent, subdirs, fs, queue, file_path, suggested_name,
                 suggested_folder, notes, placed, moveResult, call, adapter>>

\* lines 290-315
Move ==
  /\ pc = "move"
  /\ LET file_name == Basename(file_path)
         new_path == Path(target_dir, new_name)
         moving == target_dir # Dirname(file_path) \/ new_name # file_name
         m == ShutilMove(file_path, new_path)
     IN IF ~moving
        THEN pc' = "idle" /\ UNCHANGED <<fs, notes, placed, moveResult, log>>
        ELSE IF m.raised
        THEN /\ pc' = "error"
             /\ moveResult' = "failed"
             /\ log' = Append(log, Did("move", "failed", ""))
             /\ UNCHANGED <<fs, notes, placed>>
        ELSE /\ pc' = "idle"
             /\ moveResult' = "ok"
             /\ log' = Append(log, Did("move", "ok", IF new_path \in DOMAIN fs
                                                     THEN "replaced" ELSE ""))
             /\ fs' = m.fs
             /\ notes' = Append(notes, IF target_dir # Dirname(file_path)
                                       THEN "moved" ELSE "renamed")
             /\ placed' = IF m.dst.dir # Root \/ fs[file_path].id \in DOMAIN placed
                          THEN [i \in DOMAIN placed \cup {fs[file_path].id} |->
                                  IF i = fs[file_path].id THEN m.dst ELSE placed[i]]
                          ELSE placed
  /\ UNCHANGED <<rootPresent, subdirs, queue, file_path, suggested_name,
                 suggested_folder, new_name, target_dir, call, adapter>>

\* lines 317-325
ReportError ==
  /\ pc = "error"
  /\ notes' = Append(notes, "error")
  /\ pc' = "idle"
  /\ UNCHANGED <<rootPresent, subdirs, fs, queue, file_path, suggested_name,
                 suggested_folder, new_name, target_dir, placed, moveResult, call, log, adapter>>

----------------------------------------------------------------------------
(* on_created in an environment that can fail: shutil.move may raise for  *)
(* reasons of its own (permissions), send_notification may raise          *)
(* (subprocess.run finds no osascript, or the process cannot be started). *)

\* send_notification returns or raises (src/src/notifications.py, line 32)
NotifierOutcomes == {"ok", "raise"}

\* shutil.move beyond what the paths decide: it works; os.rename and the
\* copy are refused; or the copy is made and os.unlink of the source is
\* refused, so the file is at both paths when the call raises.
MoveFaults == {"none", "denied", "copied"}

ShutilMoveFaulty(src, dst, fault) ==
  LET m == ShutilMove(src, dst)
  IN IF m.raised \/ fault = "none" THEN m
     ELSE IF fault = "denied" THEN [raised |-> TRUE, fs |-> fs, dst |-> m.dst]
     ELSE [raised |-> TRUE,
           fs |-> [q \in DOMAIN fs \cup {m.dst} |-> IF q = m.dst THEN fs[src] ELSE fs[q]],
           dst |-> m.dst]

\* Lines 290-315 with the notification sent ahead of the move.
AfterMoveNotifyFirst(m, kind, nout) ==
  IF m.raised \/ nout = "raise"
  THEN [pc |-> "error", notes |-> Append(notes, kind)]
  ELSE [pc |-> "idle", notes |-> Append(notes, kind)]

\* Lines 290-315, after shutil.move: a raise goes to the except branch with
\* nothing notified; otherwise the success notification is sent, and a raise
\* of send_notification goes to the except branch as well.
AfterMove(m, kind, nout) ==
  IF m.raised THEN [pc |-> "error", notes |-> notes]
  ELSE IF nout = "raise" THEN [pc |-> "error", notes |-> Append(notes, kind)]
  ELSE [pc |-> "idle", notes |-> Append(notes, kind)]

\* Lines 317-325: the error notification is sent from the except branch,
\* where nothing catches what send_notification raises.
AfterError(nout) ==
  [pc |-> IF nout = "raise" THEN "raised" ELSE "idle", notes |-> Append(notes, "error")]

\* lines 290-315
MoveEnv ==
  /\ pc = "move"
  /\ \E fault \in MoveFaults, nout \in NotifierOutcomes :
       LET file_name == Basename(file_path)
           new_path == Path(target_dir, new_name)
           moving == target_dir # Dirname(file_path) \/ new_name # file_name
           m == ShutilMoveFaulty(file_path, new_path, fault)
           after == AfterMove(m, IF target_dir # Dirname(file_path)
                                 THEN "moved" ELSE "renamed", nout)
       IN IF ~moving
          THEN pc' = "idle" /\ UNCHANGED <<fs, notes, placed, moveResult, log>>
          ELSE /\ pc' = after.pc
               /\ log' = Append(log, Did("move", IF m.raised THEN "failed" ELSE "ok",
                                          IF ~m.raised /\ new_path \in DOMAIN fs
                                          THEN "replaced" ELSE ""))
               /\ notes' = after.notes
               /\ fs' = m.fs
               /\ moveResult' = IF m.raised THEN "failed" ELSE "ok"
               /\ placed' = IF ~m.raised /\ (m.dst.dir # Root \/ fs[file_path].id \in DOMAIN placed)
                            THEN [i \in DOMAIN placed \cup {fs[file_path].id} |->
                                    IF i = fs[file_path].id THEN m.dst ELSE placed[i]]
                            ELSE placed
  /\ UNCHANGED <<rootPresent, subdirs, queue, file_path, suggested_name,
                 suggested_folder, new_name, target_dir, call, adapter>>

\* lines 317-325; pc = "raised" is on_created raising to its caller
ReportErrorEnv ==
  /\ pc = "error"
  /\ \E nout \in NotifierOutcomes :
       /\ pc' = AfterError(nout).pc
       /\ notes' = AfterError(nout).notes
  /\ UNCHANGED <<rootPresent, subdirs, fs, queue, file_path, suggested_name,
                 suggested_folder, new_name, target_dir, placed, moveResult, call, log, adapter>>

----------------------------------------------------------------------------
(* Direct calls of the two decision methods, as the tests make them.  The *)
(* methods keep no state, so one call per behaviour covers them.           *)

FA == <<"A">>
Fa == <<"a">>
FNone == <<"N", "o", "n", "e">>

File(i, d, r) == [id |-> i, data |-> d, readable |-> r]

\* The files dropped into the watched directory.
RootFiles ==
  Path(Root, <<"a", ".txt">>) :> File(1, "utf8", TRUE) @@
  Path(Root, <<"A", ".txt">>) :> File(2, "utf8", TRUE) @@
  Path(Root, <<"a">>) :> File(3, "other", TRUE) @@
  Path(Root, <<"a", ".png">>) :> File(4, "image", TRUE) @@
  Path(Root, <<"a", ".pdf">>) :> File(5, "other", TRUE) @@
  Path(Root, <<"A", ".png">>) :> File(6, "image", FALSE)

\* Paths no file is at.
MissingPaths == {Path(Root, <<"A", ".pdf">>), Path(OtherDir, <<"a", ".txt">>)}

CallPaths == DOMAIN RootFiles \cup MissingPaths

\* Answers whose name has whitespace inside, as a model writes them
\* ("quarterly report"): spaces, a run of two spaces, a newline, a tab.
SpacedAnswers ==
  {<<OPEN>> \o body \o <<CLOSE>> :
     body \in { <<"a", " ", "a">>, <<"a", " ", " ", "a">>, <<"a", "\n", "a">>,
                <<"a", "\t", "A">>, <<" ", "a", " ", "A", "\n">> }}

\* Responses with more than one answer segment, or text around the segment.
SegmentedAnswers ==
  { <<OPEN, "a", CLOSE, OPEN, "A", CLOSE>>,
    <<OPEN, "A", CLOSE, OPEN, "N", "o", "n", "e", CLOSE>>,
    <<OPEN, "N", "o", "n", "e", CLOSE, "\n", OPEN, "a", CLOSE>>,
    <<"a", OPEN, "\n", "A", " ", CLOSE, " ", OPEN, "a", CLOSE, CLOSE>>,
    <<CLOSE, OPEN, OPEN, "a", CLOSE, "A", CLOSE>> }

NameOutcomes ==
  LlmOutcomes \cup {[raised |-> FALSE, text |-> r] : r \in SpacedAnswers \cup SegmentedAnswers}

FolderOutcomes == LlmOutcomes \cup {[raised |-> FALSE, text |-> r] : r \in SegmentedAnswers}

\* get_file_content called directly, as the tests do, while another process
\* may remove the file.
CallGetFileContent ==
  /\ call = NoCall
  /\ \E p \in CallPaths :
       \E ocr \in OcrFor(p), race \in Races :
         call' = [op |-> "get_file_content", path |-> p, ocr |-> ocr, race |-> race,
                  res |-> get_file_content_during(p, ocr, race)]
  /\ UNCHANGED <<rootPresent, subdirs, fs, queue, pc, file_path, suggested_name,
                 suggested_folder, new_name, target_dir, notes, placed, moveResult,
                 log, adapter>>

CallSuggestName ==
  /\ call = NoCall
  /\ \E p \in CallPaths :
       \E ocr \in OcrFor(p), out \in NameOutcomes :
         call' = [op |-> "suggest_name", path |-> p, ocr |-> ocr, order |-> <<>>,
                  out |-> out, res |-> suggest_name(p, ocr, out)]
  /\ UNCHANGED <<rootPresent, subdirs, fs, queue, pc, file_path, suggested_name,
                 suggested_folder, new_name, target_dir, notes, placed, moveResult, log, adapter>>

CallSuggestFolder ==
  /\ call = NoCall
  /\ \E p \in CallPaths :
       \E ocr \in OcrFor(p), order \in Orderings(subdirs), out \in FolderOutcomes :
         call' = [op |-> "suggest_folder", path |-> p, ocr |-> ocr, order |-> order,
                  out |-> out, res |-> suggest_folder(p, ocr, order, out)]
  /\ UNCHANGED <<rootPresent, subdirs, fs, queue, pc, file_path, suggested_name,
                 suggested_folder, new_name, target_dir, notes, placed, moveResult, log, adapter>>

----------------------------------------------------------------------------
(* Initial states and specifications *)

SubdirConfigs == {{}, {FA}, {FA, Fa}, {FNone}, {FA, FNone}}

\* Files already in the subfolder A when the handler starts.
PreA == Path(Join(FA), <<"a", ".txt">>) :> File(7, "utf8", TRUE)
PreA1 == Path(Join(FA), <<"a", "_", "1", ".txt">>) :> File(8, "utf8", TRUE)
Empty == [q \in {} |-> File(0, "other", TRUE)]
PreConfigs(sd) == IF FA \in sd THEN {Empty, PreA, PreA @@ PreA1} ELSE {Empty}

Event(p, d) == [src_path |-> p, is_directory |-> d]
FileEvent(d, n) == Event(Path(d, n), FALSE)

QueueConfigs ==
  { <<FileEvent(Root, <<"a", ".txt">>), FileEvent(Root, <<"A", ".txt">>)>>,
    <<FileEvent(Root, <<"a", ".txt">>), FileEvent(Root, <<"a", ".txt">>)>>,
    <<FileEvent(Root, <<"a", ".png">>), FileEvent(Root, <<"a">>)>>,
    <<FileEvent(Root, <<"a", ".pdf">>), FileEvent(Root, <<"A", ".png">>)>>,
    <<Event(Path(Root, FA), TRUE), FileEvent(Root, <<"a", ".txt">>)>>,
    <<FileEvent(Join(FA), <<"a", ".txt">>), FileEvent(Root, <<"a", ".txt">>)>>,
    <<FileEvent(OtherDir, <<"a", ".txt">>), FileEvent(Root, <<"A", ".pdf">>)>> }

InitLocals ==
  /\ pc = "idle"
  /\ file_path = NoPath
  /\ suggested_name = <<>>
  /\ suggested_folder = <<>>
  /\ new_name = <<>>
  /\ target_dir = Root
  /\ notes = <<>>
  /\ moveResult = "none"
  /\ call = NoCall
  /\ log = <<>>
  /\ adapter = NoAdapter

\* The watched directory with its subfolders and files, or removed.
InitEnv(sds, pres) ==
  \/ /\ rootPresent = TRUE
     /\ subdirs \in sds
     /\ \E pre \in PreConfigs(subdirs) \cap pres :
          /\ fs = RootFiles @@ pre
          /\ placed = [i \in {pre[q].id : q \in DOMAIN pre} |->
                         CHOOSE q \in DOMAIN pre : pre[q].id = i]
  \/ /\ rootPresent = FALSE
     /\ subdirs = {}
     /\ fs = Empty
     /\ placed = [i \in {} |-> NoPath]

Init ==
  /\ InitEnv(SubdirConfigs, {Empty, PreA, PreA @@ PreA1})
  /\ queue \in QueueConfigs
  /\ InitLocals

Next ==
  \/ OnCreatedEnter
  \/ SuggestNameStep
  \/ SuggestFolderStep
  \/ Place
  \/ Move
  \/ ReportError

\* The handler, events handled one after another, nobody else touching the
\* directory.
Spec == Init /\ [][Next]_vars

\* The events the failing environment is checked on.
QueueConfigsEnv ==
  { <<FileEvent(Root, <<"a", ".txt">>), FileEvent(Root, <<"A", ".txt">>)>>,
    <<FileEvent(Root, <<"a", ".png">>), FileEvent(Root, <<"a">>)>>,
    <<Event(Path(Root, FA), TRUE), FileEvent(Root, <<"a", ".txt">>)>>,
    <<FileEvent(Root, <<"a", ".png">>), Event(Path(Root, FA), TRUE)>>,
    <<FileEvent(OtherDir, <<"a", ".txt">>), FileEvent(Root, <<"A", ".pdf">>)>> }

InitEnvFaults ==
  /\ InitEnv(SubdirConfigs, {Empty, PreA})
  /\ queue \in QueueConfigsEnv
  /\ InitLocals

NextEnv ==
  \/ OnCreatedEnter
  \/ SuggestNameStep
  \/ SuggestFolderStep
  \/ Place
  \/ MoveEnv
  \/ ReportErrorEnv

\* The handler where the move and the notifier can fail.
SpecEnv == InitEnvFaults /\ [][NextEnv]_vars

\* The same, where a step of on_created that can be taken is taken in the
\* end: every call it makes returns or fails.
SpecEnvFair == SpecEnv /\ WF_vars(NextEnv)

\* Another process creating a file in the watched directory or a subfolder
\* while events are handled.
ExternalFile == File(9, "other", TRUE)
ExternalPaths ==
  { Path(Join(FA), <<"a", ".txt">>),
    Path(Root, <<"a", "_", "1", ".txt">>),
    Path(Root, <<"A", "_", "1", ".txt">>) }

ExternalCreate ==
  /\ \E p \in ExternalPaths :
       /\ p \notin DOMAIN fs
       /\ DirExists(p.dir)
       /\ \A q \in DOMAIN fs : fs[q] # ExternalFile
       /\ fs' = [q \in DOMAIN fs \cup {p} |-> IF q = p THEN ExternalFile ELSE fs[q]]
  /\ UNCHANGED <<rootPresent, subdirs, queue, pc, file_path, suggested_name,
                 suggested_folder, new_name, target_dir, notes, placed, moveResult,
                 call, log, adapter>>

InitRace ==
  /\ InitEnv({{}, {FA}}, {Empty})
  /\ queue \in { <<FileEvent(Root, <<"a", ".txt">>), FileEvent(Root, <<"A", ".txt">>)>>,
                 <<FileEvent(Root, <<"a", ".png">>), FileEvent(Root, <<"a">>)>> }
  /\ InitLocals

NextRace ==
  \/ OnCreatedEnter
  \/ SuggestNameStep
  \/ SuggestFolderStep
  \/ Place
  \/ Move
  \/ ReportError
  \/ ExternalCreate

\* The handler with another process writing to the directory.
SpecRace == InitRace /\ [][NextRace]_vars

InitCalls ==
  /\ InitEnv(SubdirConfigs, {Empty})
  /\ queue = <<>>
  /\ InitLocals

NextCalls ==
  \/ CallSuggestName
  \/ CallSuggestFolder
  \/ CallGetFileContent

\* suggest_name and suggest_folder called directly on a file of the directory.
SpecCalls == InitCalls /\ [][NextCalls]_vars

----------------------------------------------------------------------------
(* LLM adapters: how generate formats its messages.  The loop is the same,  *)
(* line for line, in OpenAILLM, LlamaLLM and LlamaStackLLM.                 *)

MaxMsgs == 3

Roles == {"system", "user", "assistant"}
Contents == {"a", "A"}

\* The image argument: None, empty (b"" or ""), or image data.
Images == {"none", "empty", "bytes"}

\* `if image`: None and the empty values are false
Truthy(image) == image = "bytes"

\* Ordered (role, content) lists of length at most n.
RECURSIVE MessageLists(_)
MessageLists(n) ==
  IF n = 0 THEN {<<>>}
  ELSE LET shorter == MessageLists(n-1)
       IN shorter \cup {Append(ms, <<r, c>>) :
                          ms \in {t \in shorter : Len(t) = n-1}, r \in Roles, c \in Contents}

\* The loop of generate: a user message gets the image when there is one;
\* every other message is passed on as it is.
FormatMessages(messages, image) ==
  [i \in 1..Len(messages) |->
     IF Truthy(image) /\ messages[i][1] = "user"
     THEN [role |-> messages[i][1], text |-> messages[i][2], image_url |-> TRUE]
     ELSE [role |-> messages[i][1], text |-> messages[i][2], image_url |-> FALSE]]

CallGenerate ==
  /\ call = NoCall
  /\ \E messages \in MessageLists(MaxMsgs), image \in Images :
       call' = [op |-> "generate", messages |-> messages, image |-> image,
                formatted |-> FormatMessages(messages, image)]
  /\ UNCHANGED <<rootPresent, subdirs, fs, queue, pc, file_path, suggested_name,
                 suggested_folder, new_name, target_dir, notes, placed, moveResult, log, adapter>>

InitGenerate ==
  /\ InitEnv({{}}, {Empty})
  /\ queue = <<>>
  /\ InitLocals

NextGenerate ==
  \/ CallGenerate

\* generate of an adapter called directly with a message list.
SpecGenerate == InitGenerate /\ [][NextGenerate]_vars

----------------------------------------------------------------------------
(* An adapter object over several generate calls.  The repository has two   *)
(* OpenAILLM classes: src/llm.py and src/src/llms/openaillm.py.             *)

MaxCalls == 3

Adapters == {"llm.py", "llms/openaillm.py"}

DefaultModel == "gpt-4o-mini"
VisionModel == "gpt-4-vision-preview"

\* __init__: self.model = model
Construct(impl) ==
  [impl |-> impl, configured |-> DefaultModel, model |-> DefaultModel, sent |-> <<>>]

\* self.model once generate has formatted its messages: src/llm.py sets it
\* to the vision model when there is an image; the llms package leaves it.
ModelAfter(a, image) ==
  IF a.impl = "llm.py" /\ Truthy(image) THEN VisionModel ELSE a.model

AdapterConstruct ==
  /\ adapter = NoAdapter
  /\ \E impl \in Adapters : adapter' = Construct(impl)
  /\ UNCHANGED <<rootPresent, subdirs, fs, queue, pc, file_path, suggested_name,
                 suggested_folder, new_name, target_dir, notes, placed, moveResult,
                 call, log>>

\* generate: the request goes out with self.model as it is after the update
AdapterGenerate ==
  /\ adapter # NoAdapter
  /\ Len(adapter.sent) < MaxCalls
  /\ \E messages \in MessageLists(1), image \in Images :
       adapter' = [adapter EXCEPT
                     !.model = ModelAfter(adapter, image),
                     !.sent = Append(@, [messages |-> messages, image |-> image,
                                         model |-> ModelAfter(adapter, image),
                                         formatted |-> FormatMessages(messages, image)])]
  /\ UNCHANGED <<rootPresent, subdirs, fs, queue, pc, file_path, suggested_name,
                 suggested_folder, new_name, target_dir, notes, placed, moveResult,
                 call, log>>

NextAdapter ==
  \/ AdapterConstruct
  \/ AdapterGenerate

\* One adapter object, constructed and then called a few times.
SpecAdapter == InitGenerate /\ [][NextAdapter]_vars

----------------------------------------------------------------------------
(* Claims about suggest_folder and suggest_name, under SpecCalls *)

FolderCall == call.op = "suggest_folder"
NameCall == call.op = "suggest_name"

\* The elements of a listing
Elements(list) == {list[i] : i \in 1..Len(list)}

\* The trimmed content of the response's first answer segment, if it has one
Answered(text) == ReSearch(text).matched
AnswerOf(text) == Strip(ReSearch(text).group)

\* C1: whatever the listing and the model's response, what suggest_folder
\* returns is the empty string or one of the listed subfolders in its own
\* casing; and an answer that equals a listed subfolder up to case gets a
\* listed subfolder that equals it up to case (the answer a with the single
\* subfolder A gets A).
C1_FolderIsListedSubfolder ==
  (FolderCall /\ ~call.res.raised) =>
    /\ call.res.ret = <<>> \/ call.res.ret \in Elements(call.order)
    /\ Elements(call.order) = subdirs
    /\ ( /\ ~call.out.raised
         /\ Answered(call.out.text)
         /\ \E f \in subdirs : Lower(f) = Lower(AnswerOf(call.out.text)) )
       => /\ call.res.ret \in subdirs
          /\ Lower(call.res.ret) = Lower(AnswerOf(call.out.text))
    /\ (call.order = <<FA>> /\ ~call.out.raised /\ call.out.text = <<OPEN, "a", CLOSE>>)
       => call.res.ret = FA

\* C1's case: the answer a matched the subfolder A, which was returned as A.
C1_Witness ==
  /\ FolderCall
  /\ ~call.out.raised
  /\ call.out.text = <<OPEN, "a", CLOSE>>
  /\ subdirs = {FA, FNone}
  /\ call.res.ret = FA

\* C2: when the watched directory has no subfolders, suggest_folder returns
\* the empty string without invoking llm.generate, whatever the file's
\* content kind.
C2_NoSubfoldersNoGenerate ==
  (FolderCall /\ rootPresent /\ subdirs = {}) =>
    /\ ~call.res.raised
    /\ call.res.ret = <<>>
    /\ call.res.gen = 0

\* C2's case: no subfolders, an image file, a model that would have answered.
C2_Witness ==
  /\ FolderCall
  /\ rootPresent
  /\ subdirs = {}
  /\ get_file_content(call.path, call.ocr).kind = "image"
  /\ ~call.out.raised
  /\ call.out.text = <<OPEN, "a", CLOSE>>
  /\ call.res.ret = <<>>

\* C3: for a file whose content kind is binary, suggest_name returns the
\* file's base name as it is and does not invoke llm.generate.
C3_BinaryKeepsName ==
  (NameCall /\ get_file_content(call.path, call.ocr).kind = "binary") =>
    /\ ~call.res.raised
    /\ call.res.ret = Basename(call.path)
    /\ call.res.gen = 0

\* C3's case: an existing binary file, a model that would have answered.
C3_Witness ==
  /\ NameCall
  /\ call.path \in DOMAIN fs
  /\ get_file_content(call.path, call.ocr).kind = "binary"
  /\ ~call.out.raised
  /\ call.out.text = <<OPEN, "A", CLOSE>>
  /\ call.res.ret = Basename(call.path)

\* C4: with subfolders to choose from, a generation that raises or comes
\* back empty makes suggest_folder return the empty string, not raise, for
\* an image as for any other file.
C4_FolderGenerationFailure ==
  (FolderCall /\ rootPresent /\ subdirs # {}
     /\ (call.out.raised \/ call.out.text = <<>>)) =>
    /\ ~call.res.raised
    /\ call.res.ret = <<>>
    /\ call.res.gen = 1

\* C4's case: both call paths, a raising and an empty generation.
C4_Witness ==
  /\ FolderCall
  /\ FNone \in subdirs
  /\ \/ call.res.kind = "image" /\ call.out.raised
     \/ call.res.kind = "text" /\ ~call.out.raised /\ call.out.text = <<>>
  /\ call.res.ret = <<>>

\* C5: for a file that is not binary, a generation that raises or comes
\* back empty makes suggest_name return the original base name, not raise,
\* for an image as for any other file.
C5_NameGenerationFailure ==
  (NameCall /\ get_file_content(call.path, call.ocr).kind # "binary"
     /\ (call.out.raised \/ call.out.text = <<>>)) =>
    /\ ~call.res.raised
    /\ call.res.ret = Basename(call.path)
    /\ call.res.gen = 1

\* C5's case: both call paths, a raising and an empty generation.
C5_Witness ==
  /\ NameCall
  /\ \/ call.res.kind = "image" /\ call.out.raised
     \/ call.res.kind = "text" /\ ~call.out.raised /\ call.out.text = <<>>
  /\ call.res.ret = Basename(call.path)

\* C6: for a non-empty response with no answer segment, suggest_folder
\* returns the empty string and does not raise, whatever the subfolders are
\* called (a subfolder named None included).
C6_NoSegmentNoFolder ==
  (FolderCall /\ rootPresent /\ ~call.out.raised /\ call.out.text # <<>>
     /\ ~Answered(call.out.text)) =>
    /\ ~call.res.raised
    /\ call.res.ret = <<>>

\* C7: for a non-empty response, suggest_name returns the original base
\* name when the parsed answer is empty (no answer segment, or a first
\* segment that is empty once trimmed), and the parsed name with its spaces
\* replaced otherwise.
C7_EmptyAnswerKeepsName ==
  (NameCall /\ get_file_content(call.path, call.ocr).kind # "binary"
     /\ ~call.out.raised /\ call.out.text # <<>>) =>
    /\ ~call.res.raised
    /\ call.res.ret =
         IF ~Answered(call.out.text) \/ AnswerOf(call.out.text) = <<>>
         THEN Basename(call.path)
         ELSE ReplaceSpaces(AnswerOf(call.out.text))

\* C8: suggest_name and suggest_folder return a string and never raise,
\* whether the file is there, gone or unreadable, whether the watched
\* directory is there or removed, and whatever the model does.
C8_DecisionsNeverRaise ==
  (FolderCall \/ NameCall) => ~call.res.raised

----------------------------------------------------------------------------
(* Claims about on_created, under Spec *)

\* The extension on_created keeps (line 271)
Ext == Splitext(file_path.name).ext

\* A file name is taken in the target directory
Taken(n) == Exists(Path(target_dir, n))

\* More probes than this the collision loop cannot need.
MostProbes == Cardinality(DOMAIN fs) + Cardinality(subdirs) + 1

\* C9: the name on_created settles on is the suggested name plus extension
\* if that is free in the target directory, and otherwise name_k plus
\* extension for the least k >= 1 that is free.
C9_LeastFreeCandidate ==
  pc = "move" =>
    IF ~Taken(suggested_name \o Ext)
    THEN new_name = suggested_name \o Ext
    ELSE \E k \in 1..MostProbes :
           /\ new_name = Suffixed(suggested_name, k, Ext)
           /\ ~Taken(Suffixed(suggested_name, k, Ext))
           /\ \A j \in 1..(k-1) : Taken(Suffixed(suggested_name, j, Ext))

\* C9's case: a.txt and a_1.txt are in the target folder, so a_2.txt it is.
C9_Witness ==
  /\ pc = "move"
  /\ target_dir = Join(FA)
  /\ suggested_name = <<"a">>
  /\ Taken(<<"a", ".txt">>)
  /\ Taken(<<"a", "_", "1", ".txt">>)
  /\ new_name = <<"a", "_", "2", ".txt">>

\* C10: with events handled one after another and nobody else changing the
\* directory, the destination does not exist when the collision loop is
\* left, every file put into a subfolder (or found there at the start) is
\* still where it was put, no two of them share a path, and no file that
\* was dropped into the directory has been lost.
C10_NoOverwrite ==
  /\ pc = "move" => ~Exists(Path(target_dir, new_name))
  /\ \A i \in DOMAIN placed : placed[i] \in DOMAIN fs /\ fs[placed[i]].id = i
  /\ \A i, j \in DOMAIN placed : i # j => placed[i] # placed[j]
  /\ rootPresent =>
       \A p \in DOMAIN RootFiles : \E q \in DOMAIN fs : fs[q] = RootFiles[p]

\* C10's case: two dropped files got the same name and folder, where a file
\* of that name already was; all three are there under different names.
C10_Witness ==
  /\ pc = "idle"
  /\ queue = <<>>
  /\ {1, 2, 7} \subseteq DOMAIN placed
  /\ placed[7] = Path(Join(FA), <<"a", ".txt">>)
  /\ placed[1] = Path(Join(FA), <<"a", "_", "1", ".txt">>)
  /\ placed[2] = Path(Join(FA), <<"a", "_", "2", ".txt">>)

----------------------------------------------------------------------------
\* The event in file_path has been handled and on_created has returned.
EventHandled == pc = "idle" /\ file_path # NoPath

\* The notifier calls of the event that report a success.
SuccessNotes == {i \in 1..Len(notes) : notes[i] \in {"moved", "renamed"}}

\* C11: for an existing file of the watched directory, when the suggested
\* folder is empty and the suggested name plus the original extension is the
\* file's own name, on_created changes nothing on the filesystem.
C11_NoOpLeavesFilesystem ==
  [][(/\ pc = "move"
      /\ file_path \in DOMAIN fs
      /\ file_path.dir = Root
      /\ suggested_folder = <<>>
      /\ suggested_name \o Ext = file_path.name) => fs' = fs]_vars

\* C12: on_created never raises to its caller, whichever step of the
\* pipeline fails (move and notifier included).
C12_NeverRaisesToCaller == pc # "raised"

\* C13: an event whose path does not exist on disk makes exactly one
\* notifier call, the error notification.
C13_MissingPathOneError ==
  (EventHandled /\ file_path \notin DOMAIN fs /\ moveResult # "ok") => notes = <<"error">>

\* C14: when the move or rename fails, the file is still at its original
\* path as it was, no success notification is made for the event, and
\* exactly one error notification is made.
C14_FailedMoveLeavesFile ==
  /\ [][(pc = "move" /\ moveResult' = "failed" /\ file_path \in DOMAIN fs)
          => (file_path \in DOMAIN fs' /\ fs'[file_path] = fs[file_path])]_vars
  /\ [](moveResult = "failed" =>
          /\ SuccessNotes = {}
          /\ pc \in {"error", "idle", "raised"}
          /\ (pc # "error" => notes = <<"error">>))

C14_Witness ==
  /\ moveResult = "failed"
  /\ file_path \in DOMAIN fs
  /\ pc = "idle"
  /\ notes = <<"error">>

\* C15: every handled non-directory event makes exactly one notifier call,
\* of the kind of its outcome: moved, renamed, no-change or error.
C15_OneNotificationPerEvent ==
  EventHandled =>
    /\ Len(notes) = 1
    /\ moveResult = "ok" =>
         notes[1] = (IF target_dir # Dirname(file_path) THEN "moved" ELSE "renamed")
    /\ moveResult = "failed" => notes[1] = "error"
    /\ moveResult = "none" => notes[1] \in {"nochange", "error"}

\* C16: when suggest_folder gives a folder F for an existing file of the
\* watched directory and the move succeeds, then once on_created has
\* returned the file is under F, not at its original path, and exactly one
\* notifier call was made, reporting the move.
C16_MovedAndReportedOnce ==
  (EventHandled /\ file_path.dir = Root /\ suggested_folder # <<>> /\ moveResult = "ok")
    => /\ file_path \notin DOMAIN fs
       /\ Path(Join(suggested_folder), new_name) \in DOMAIN fs
       /\ notes = <<"moved">>

\* C17: a directory event is ignored outright: on_created returns without
\* reading, listing, asking the model, touching the filesystem or notifying.
C17_DirectoryEventIgnored ==
  [][(pc = "idle" /\ queue # <<>> /\ Head(queue).is_directory)
       => /\ pc' = "idle"
          /\ UNCHANGED <<fs, notes, file_path, moveResult, placed, subdirs>>]_vars

C17_Witness ==
  /\ pc = "idle"
  /\ queue = <<>>
  /\ file_path = Path(Root, <<"a", ".png">>)
  /\ notes # <<>>

\* C18: a raising send_notification does not leave on_created, and no
\* error is reported for an event whose move or rename succeeded.
C18_NotifierFailuresIgnored ==
  /\ pc # "raised"
  /\ moveResult = "ok" => \A i \in 1..Len(notes) : notes[i] # "error"

\* The formatted messages that carry the image.
WithImage(formatted) == {i \in 1..Len(formatted) : formatted[i].image_url}

\* The first user turn of a message list, if it has one.
FirstUser(messages) ==
  {i \in 1..Len(messages) :
     messages[i][1] = "user" /\ \A j \in 1..(i-1) : messages[j][1] # "user"}

\* C19: generate with a non-empty image attaches it to at most one formatted
\* message, the first user turn; with no image no formatted message carries
\* one; order, roles and text of the messages are preserved.
C19_ImageOnFirstUserTurnOnly ==
  call.op = "generate" =>
    /\ Len(call.formatted) = Len(call.messages)
    /\ \A i \in 1..Len(call.messages) :
         /\ call.formatted[i].role = call.messages[i][1]
         /\ call.formatted[i].text = call.messages[i][2]
    /\ IF call.image = "bytes"
       THEN WithImage(call.formatted) \subseteq FirstUser(call.messages)
       ELSE WithImage(call.formatted) = {}

\* Every maximal run of whitespace replaced by one underscore.
RECURSIVE CollapseRuns(_)
CollapseRuns(s) ==
  IF s = <<>> THEN <<>>
  ELSE IF Head(s) \notin Whitespace THEN <<Head(s)>> \o CollapseRuns(Tail(s))
  ELSE IF Tail(s) # <<>> /\ Head(Tail(s)) \in Whitespace THEN CollapseRuns(Tail(s))
  ELSE <<"_">> \o CollapseRuns(Tail(s))

\* C20: the name suggest_name returns for a parsed answer is the trimmed
\* answer with every maximal run of whitespace (spaces, tabs, newlines)
\* replaced by exactly one underscore; it holds no whitespace character.
C20_WhitespaceRunsToOneUnderscore ==
  (/\ NameCall
   /\ ~call.res.raised
   /\ call.res.gen = 1
   /\ ~call.out.raised
   /\ Answered(call.out.text))
    => /\ call.res.ret = CollapseRuns(AnswerOf(call.out.text))
       /\ \A i \in 1..Len(call.res.ret) : call.res.ret[i] \notin Whitespace

----------------------------------------------------------------------------
\* The positions of the event's log where op was done.
Done(op) == {i \in 1..Len(log) : log[i].op = op}

\* C21: within one event the content kind and payload are derived by a
\* single classification: naming and folder decision see the same kind and
\* payload, and the PDF text extraction is invoked at most once.
C21_OneClassificationPerEvent ==
  /\ \A i, j \in Done("classify") : log[i] = log[j]
  /\ Cardinality(Done("ocr")) <= 1

\* C23: the destination directory is the suggested folder under the watched
\* directory, or, with no folder suggested, the directory the file is in: a
\* file with no folder suggestion never changes directory.
C23_TargetDirectory ==
  [][(pc = "move" /\ file_path \in DOMAIN fs)
       => /\ target_dir = (IF suggested_folder # <<>> THEN Join(suggested_folder)
                           ELSE Dirname(file_path))
          /\ suggested_folder = <<>> =>
               \E q \in DOMAIN fs' : /\ q.dir = Dirname(file_path)
                                     /\ fs'[q].id = fs[file_path].id]_vars

\* C24: when both decisions fall back to their defaults for an existing
\* file of the watched directory (suggest_name returned the original base
\* name, suggest_folder returned ""), the file keeps its name and place.
C24_DefaultsLeaveFile ==
  [][(/\ pc = "move"
      /\ file_path \in DOMAIN fs
      /\ file_path.dir = Root
      /\ suggested_folder = <<>>
      /\ suggested_name = Basename(file_path)) => (fs' = fs /\ notes' = notes)]_vars

\* The kind the precedence Image > PDF-text > Text > Binary gives a file.
KindByPrecedence(p) ==
  IF p \in DOMAIN fs /\ fs[p].readable /\ fs[p].data = "image" THEN "image"
  ELSE IF Splitext(p.name).ext = <<".pdf">> THEN "text"
  ELSE IF p \in DOMAIN fs /\ fs[p].readable /\ fs[p].data = "utf8" THEN "text"
  ELSE "binary"

\* C22: get_file_content never raises, also when the file vanishes or turns
\* unreadable between the kind check and the read, and it classifies by the
\* precedence Image > PDF-text > Text > Binary.
C22_ContentNeverRaises ==
  call.op = "get_file_content" =>
    /\ ~call.res.raised
    /\ call.race = "none" => call.res.kind = KindByPrecedence(call.path)
    /\ call.res.kind = "binary" => call.res.content = ""

\* The first opening tag of a response and the first closing tag after it.
FirstOpen(text) ==
  CHOOSE i \in 1..Len(text) : text[i] = OPEN /\ \A k \in 1..(i-1) : text[k] # OPEN
FirstClose(text) ==
  CHOOSE j \in (FirstOpen(text)+1)..Len(text) :
    text[j] = CLOSE /\ \A k \in (FirstOpen(text)+1)..(j-1) : text[k] # CLOSE
HasSegment(text) ==
  \E i, j \in 1..Len(text) : i < j /\ text[i] = OPEN /\ text[j] = CLOSE
FirstSegment(text) == Strip(SubSeq(text, FirstOpen(text) + 1, FirstClose(text) - 1))

\* C25: the answer both decisions use is the trimmed content between the
\* first opening tag and the first closing tag after it; what follows that
\* closing tag never changes the result.
C25_FirstAnswerSegment ==
  (/\ call.op \in {"suggest_name", "suggest_folder"}
   /\ ~call.res.raised
   /\ call.res.gen = 1
   /\ ~call.out.raised
   /\ HasSegment(call.out.text))
    => LET seg == FirstSegment(call.out.text)
           cut == [raised |-> FALSE, text |-> SubSeq(call.out.text, 1, FirstClose(call.out.text))]
       IN /\ NameCall => /\ call.res.ret = ReplaceSpaces(seg)
                         /\ call.res = suggest_name(call.path, call.ocr, cut)
          /\ FolderCall =>
               /\ call.res.ret # <<>> => Lower(call.res.ret) = Lower(seg)
               /\ (\E f \in subdirs : Lower(f) = Lower(seg)) => call.res.ret # <<>>
               /\ call.res = suggest_folder(call.path, call.ocr, call.order, cut)

C25_Witness ==
  /\ FolderCall
  /\ call.out.text = <<OPEN, "A", CLOSE, OPEN, "N", "o", "n", "e", CLOSE>>
  /\ FNone \in subdirs
  /\ call.res.ret = FA

\* Every position of op in the event's log lies before every position of later.
Before(op, later) == \A i \in Done(op), j \in Done(later) : i < j

\* C26: within one event there is at most one filesystem mutation, the
\* move; it comes after the delay, both decisions (at most two model
\* invocations) and the collision probe, and before any success
\* notification; until then the filesystem is as it was.
C26_MoveIsLastAndOnly ==
  /\ [][fs' # fs => (/\ pc = "move"
                     /\ Done("move") = {}
                     /\ Done("probe") # {}
                     /\ SuccessNotes = {})]_vars
  /\ [](/\ Cardinality(Done("move")) <= 1
        /\ Cardinality(Done("generate")) <= 2
        /\ Cardinality(Done("sleep")) <= 1
        /\ Before("sleep", "classify") /\ Before("classify", "probe")
        /\ Before("generate", "probe") /\ Before("probe", "move")
        /\ pc \in {"folder", "place", "move"} => Done("classify") # {}
        /\ pc \in {"place", "move"} => Cardinality(Done("classify")) = 2
        /\ SuccessNotes # {} => \E i \in Done("move") : log[i].kind = "ok")

C26_Witness ==
  /\ pc = "idle"
  /\ notes = <<"moved">>
  /\ Cardinality(Done("generate")) = 2
  /\ Cardinality(Done("move")) = 1
  /\ file_path \notin DOMAIN fs

\* C27: the handling of every file event terminates and the handler is idle
\* again, through the normal path or the error path, provided each external
\* call returns or fails.
C27_HandlingTerminates == (pc # "idle") ~> (pc = "idle")

\* C30: at most one pipeline is in flight: on_created starts for an event
\* only when its call for the event before has returned.
C30_OneEventAtATime ==
  [][queue' # queue =>
       /\ pc = "idle"
       /\ Len(queue') = Len(queue) - 1
       /\ pc' \in {"idle", "name"}]_vars

C30_Witness ==
  /\ queue = <<>>
  /\ pc = "folder"
  /\ file_path = Path(Root, <<"A", ".txt">>)
  /\ Path(Root, <<"a", ".txt">>) \notin DOMAIN fs
  /\ rootPresent

\* C28: no state crosses generate calls: the request (model, formatted
\* messages) is decided by the call's arguments and the adapter's
\* configuration alone, so a text-only call after an image call uses the
\* model a text-only call made first uses.
C28_RequestsIndependentOfHistory ==
  adapter # NoAdapter =>
    \A i, j \in 1..Len(adapter.sent) :
      (adapter.sent[i].messages = adapter.sent[j].messages
       /\ adapter.sent[i].image = adapter.sent[j].image)
        => (adapter.sent[i].model = adapter.sent[j].model
            /\ adapter.sent[i].formatted = adapter.sent[j].formatted)

\* C29: probe and move are not one step: an entry another process creates
\* at the chosen destination after the collision loop and before the move
\* is not noticed, and the move is performed onto the existing path.
C29_MoveOntoExistingPath ==
  [][(/\ pc = "move"
      /\ file_path \in DOMAIN fs
      /\ Path(target_dir, new_name) \in DOMAIN fs
      /\ Path(target_dir, new_name) # file_path)
       => /\ fs[Path(target_dir, new_name)] = ExternalFile
          /\ moveResult' = "ok"
          /\ fs'[Path(target_dir, new_name)] = fs[file_path]
          /\ \A q \in DOMAIN fs' : fs'[q] # ExternalFile]_vars

C29_Witness ==
  /\ pc = "idle"
  /\ moveResult = "ok"
  /\ \E i \in Done("move") : log[i].content = "replaced"
  /\ \A q \in DOMAIN fs : fs[q] # ExternalFile

====
